---- MODULE Spec2Model ----
(***************************************************************************)
(* The TokenBadge account of the whirlpool program                         *)
(* (programs/whirlpool/src/state/token_badge.rs).                          *)
(*                                                                         *)
(* The record is a struct of two Pubkeys carrying #[account] and           *)
(* #[derive(Default)], a size constant LEN and one method, initialize.     *)
(* A Pubkey is modelled as what it is, a sequence of 32 bytes, and the     *)
(* serialization #[account] derives is modelled byte by byte: the 8-byte   *)
(* discriminator followed by the fields in declaration order.              *)
(***************************************************************************)
EXTENDS Integers, Sequences, FiniteSets, TLC

\* ---------------------------------------------------------------- bounds
\* Identifiers are drawn from the constant-fill keys 0x00*32 .. MaxByte*32
\* and one key whose bytes all differ.
MaxByte == 1
\* initialize is called at most MaxCalls times on one in-memory record.
MaxCalls == 3

\* ------------------------------------------------------ program constants
\* size of a Pubkey ("// 32")
PubkeyBytes == 32
\* size the comment of the struct reserves ("// 128 RESERVE")
ReserveBytes == 128
\* size of the account discriminator #[account] puts in front of the fields
DiscriminatorBytes == 8

\* pub const LEN: usize = 8 + 32 + 32 + 128;
LEN == 8 + 32 + 32 + 128

\* ------------------------------------------------------------ byte helpers
Fill(b) == [i \in 1..PubkeyBytes |-> b]
Ramp == [i \in 1..PubkeyBytes |-> i]
Zeros(n) == [i \in 1..n |-> 0]

\* Pubkey::default(): 32 zero bytes
DefaultPubkey == Fill(0)

\* the identifiers the model passes to initialize
Keys == {Fill(b) : b \in 0..MaxByte} \cup {Ramp}

\* ------------------------------------------------------------- the record
\* The fields the struct declares, in declaration order, with their sizes.
\* The 128 reserved bytes are a comment of the struct, not a field.
Fields == << [name |-> "whirlpools_config", size |-> PubkeyBytes],
             [name |-> "token_mint", size |-> PubkeyBytes] >>

RECURSIVE SumSizes(_)
SumSizes(fs) == IF fs = << >> THEN 0 ELSE Head(fs).size + SumSizes(Tail(fs))

TokenBadge(c, m) == [whirlpools_config |-> c, token_mint |-> m]

\* #[derive(Default)]
Default == TokenBadge(DefaultPubkey, DefaultPubkey)

\* sha256("account:TokenBadge")[..8], the discriminator #[account] derives
DISCRIMINATOR == << 116, 219, 204, 229, 249, 116, 255, 150 >>

\* ---------------------------------------------------------- initialize
\* A variant that stores the two arguments in each other's field.
initialize_swapped(self, whirlpools_config, token_mint) ==
  [self |-> TokenBadge(token_mint, whirlpools_config), ret |-> "Ok"]

\* A variant that refuses a record that already holds an identity.
initialize_once(self, whirlpools_config, token_mint) ==
  IF self = Default
    THEN [self |-> TokenBadge(whirlpools_config, token_mint), ret |-> "Ok"]
    ELSE [self |-> self, ret |-> "Err"]

\* A variant that forgets to store token_mint.
initialize_config_only(self, whirlpools_config, token_mint) ==
  [self |-> [self EXCEPT !.whirlpools_config = whirlpools_config], ret |-> "Ok"]

\* A variant that fills only the fields that are still default.
initialize_if_unset(self, whirlpools_config, token_mint) ==
  [self |-> TokenBadge(
       IF self.whirlpools_config = DefaultPubkey
         THEN whirlpools_config ELSE self.whirlpools_config,
       IF self.token_mint = DefaultPubkey
         THEN token_mint ELSE self.token_mint),
   ret |-> "Ok"]

\* A variant that rejects a mint equal to the config.
initialize_distinct(self, whirlpools_config, token_mint) ==
  IF whirlpools_config = token_mint
    THEN [self |-> self, ret |-> "Err"]
    ELSE [self |-> TokenBadge(whirlpools_config, token_mint), ret |-> "Ok"]

\* pub fn initialize(&mut self, whirlpools_config, token_mint) -> Result<()>
\*   self.whirlpools_config = whirlpools_config;
\*   self.token_mint = token_mint;
\*   Ok(())
initialize(self, whirlpools_config, token_mint) ==
  [self |-> [self EXCEPT !.whirlpools_config = whirlpools_config,
                         !.token_mint = token_mint],
   ret |-> "Ok"]

\* ------------------------------------------------------- serialization
\* A variant that writes token_mint twice, running into the reserved bytes.
try_serialize_mint_twice(self) ==
  DISCRIMINATOR \o self.whirlpools_config \o self.token_mint \o self.token_mint

\* A variant that writes the fields in the wrong order.
try_serialize_mint_first(self) ==
  DISCRIMINATOR \o self.token_mint \o self.whirlpools_config

\* AccountSerialize::try_serialize as #[account] derives it: the
\* discriminator, then the fields in declaration order, a Pubkey as its 32
\* bytes.
try_serialize(self) ==
  DISCRIMINATOR \o self.whirlpools_config \o self.token_mint

\* Writing the serialized bytes at the start of the account's data; bytes
\* past the end of what is written keep their value.
write(dst, bytes) ==
  [i \in 1..Len(dst) |-> IF i <= Len(bytes) THEN bytes[i] ELSE dst[i]]

\* AccountDeserialize::try_deserialize as #[account] derives it: the
\* discriminator is checked, the fields are read in declaration order, and
\* bytes that follow the last field are ignored.
try_deserialize(buf) ==
  IF Len(buf) < DiscriminatorBytes
    THEN [ok |-> FALSE, err |-> "AccountDiscriminatorNotFound"]
  ELSE IF SubSeq(buf, 1, DiscriminatorBytes) # DISCRIMINATOR
    THEN [ok |-> FALSE, err |-> "AccountDiscriminatorMismatch"]
  ELSE IF Len(buf) < DiscriminatorBytes + SumSizes(Fields)
    THEN [ok |-> FALSE, err |-> "AccountDidNotDeserialize"]
  ELSE [ok |-> TRUE,
        value |-> TokenBadge(
          SubSeq(buf, DiscriminatorBytes + 1, DiscriminatorBytes + PubkeyBytes),
          SubSeq(buf, DiscriminatorBytes + PubkeyBytes + 1,
                      DiscriminatorBytes + 2 * PubkeyBytes))]

\* The storage the allocating layer hands out for one record: LEN zero bytes.
AllocatedData == Zeros(LEN)

\* the reserved region of the persisted layout: the last 128 bytes
Reserved(buf) == SubSeq(buf, Len(buf) - ReserveBytes + 1, Len(buf))

\* ------------------------------------------------------------------ state
None == [none |-> TRUE]

VARIABLES
  badge,      \* the in-memory TokenBadge
  result,     \* what the last initialize returned; "None" before the first call
  ncalls,     \* how many times initialize was called on badge
  nerrs,      \* how many of these calls returned an error
  lastArgs,   \* the arguments of the last initialize; None before the first
  prevArgs,   \* the arguments of the initialize before the last; None before
  data,       \* the account's data
  written,    \* how many bytes the last serialization wrote; 0 before
  savedArgs,  \* lastArgs at the time badge was last serialized into data
  loaded,     \* what the last try_deserialize(data) returned; None before
  loadedArgs  \* savedArgs at the time of the last try_deserialize

vars == << badge, result, ncalls, nerrs, lastArgs, prevArgs, data, written,
          savedArgs, loaded, loadedArgs >>

Init ==
  /\ badge = Default
  /\ result = "None"
  /\ ncalls = 0
  /\ nerrs = 0
  /\ lastArgs = None
  /\ prevArgs = None
  /\ data = AllocatedData
  /\ written = 0
  /\ savedArgs = None
  /\ loaded = None
  /\ loadedArgs = None

\* a call of initialize on the in-memory record
Initialize ==
  /\ ncalls < MaxCalls
  /\ \E c \in Keys, m \in Keys :
       LET r == initialize(badge, c, m) IN
         /\ badge' = r.self
         /\ result' = r.ret
         /\ nerrs' = IF r.ret = "Ok" THEN nerrs ELSE nerrs + 1
         /\ lastArgs' = [whirlpools_config |-> c, token_mint |-> m]
  /\ prevArgs' = lastArgs
  /\ ncalls' = ncalls + 1
  /\ UNCHANGED << data, written, savedArgs, loaded, loadedArgs >>

\* the in-memory record is serialized into the account's data
Serialize ==
  /\ Len(try_serialize(badge)) <= Len(data)
  /\ data' = write(data, try_serialize(badge))
  /\ written' = Len(try_serialize(badge))
  /\ savedArgs' = lastArgs
  /\ UNCHANGED << badge, result, ncalls, nerrs, lastArgs, prevArgs, loaded, loadedArgs >>

\* the account's data is deserialized
Deserialize ==
  /\ loaded' = try_deserialize(data)
  /\ loadedArgs' = savedArgs
  /\ UNCHANGED << badge, result, ncalls, nerrs, lastArgs, prevArgs, data, written, savedArgs >>

Next == Initialize \/ Serialize \/ Deserialize

Spec == Init /\ [][Next]_vars

\* ----------------------------------------------------------------- claims
Args(c, m) == [whirlpools_config |-> c, token_mint |-> m]

\* C1: after initialize(c, m) returns, whatever the record held before, its
\* whirlpools_config equals c and its token_mint equals m.
C1_InitializeSetsFields ==
  lastArgs # None =>
    /\ badge.whirlpools_config = lastArgs.whirlpools_config
    /\ badge.token_mint = lastArgs.token_mint

\* initialize has set two different identifiers on a record that held others
C1_Witness ==
  /\ ncalls >= 2
  /\ prevArgs = Args(Ramp, Fill(0))
  /\ lastArgs = Args(Fill(1), Ramp)
  /\ badge = TokenBadge(Fill(1), Ramp)

\* C2: initialize has no failure path: every call, on a fresh or an already
\* initialized record, returns Ok(()) and never an error, and a further call
\* with any pair of identifiers would return Ok(()) as well.
C2_NoFailurePath ==
  /\ nerrs = 0
  /\ ncalls > 0 => result = "Ok"
  /\ \A c \in Keys, m \in Keys : initialize(badge, c, m).ret = "Ok"

\* initialize has returned on a record that was already initialized
C2_Witness ==
  /\ ncalls >= 2
  /\ prevArgs # None
  /\ prevArgs # Args(DefaultPubkey, DefaultPubkey)
  /\ result = "Ok"

\* C3: the serialized size of every record, fresh or initialized, equals
\* LEN = 8 + 32 + 32 + 128 = 200 bytes.
C3_SerializedSizeIsLEN ==
  written # 0 => written = LEN

\* C4: the 128 reserved bytes of the record's storage are zero when the
\* storage is allocated and stay zero after any number of initialize calls
\* and of serializations of the record into the storage.
C4_ReservedStaysZero ==
  /\ Len(data) = LEN
  /\ Reserved(data) = Zeros(ReserveBytes)

\* a record initialized twice, with no zero byte in it, has been serialized
C4_Witness ==
  /\ ncalls >= 2
  /\ savedArgs = Args(Fill(1), Ramp)
  /\ data # AllocatedData

\* C5: initialize(c, m), then serialization, then deserialization of the
\* bytes succeeds and gives a record whose fields are c and m.
C5_RoundTrip ==
  (loaded # None /\ loadedArgs # None) =>
    /\ loaded.ok
    /\ loaded.value.whirlpools_config = loadedArgs.whirlpools_config
    /\ loaded.value.token_mint = loadedArgs.token_mint

\* a record with two different identifiers has made the round trip
C5_Witness ==
  /\ loaded # None
  /\ loaded.ok
  /\ loadedArgs = Args(Ramp, Fill(1))
  /\ loaded.value = TokenBadge(Ramp, Fill(1))

\* C6: the persisted layout is the header, whirlpools_config, token_mint and
\* 128 reserved bytes, and LEN is the sum of the sizes of the header and of
\* the fields the record lays out.
C6_LayoutMatchesLEN ==
  savedArgs # None =>
    /\ data = DISCRIMINATOR \o savedArgs.whirlpools_config
                 \o savedArgs.token_mint \o Zeros(ReserveBytes)
    /\ LEN = DiscriminatorBytes + SumSizes(Fields)

\* C7: initialize(c1, m1) followed by initialize(c2, m2) with other inputs
\* leaves whirlpools_config = c2 and token_mint = m2, nothing of (c1, m1)
\* where the inputs differ, and neither call returns an error.
C7_SecondCallOverwrites ==
  (prevArgs # None /\ prevArgs # lastArgs) =>
    /\ badge = TokenBadge(lastArgs.whirlpools_config, lastArgs.token_mint)
    /\ lastArgs.whirlpools_config # prevArgs.whirlpools_config
         => badge.whirlpools_config # prevArgs.whirlpools_config
    /\ lastArgs.token_mint # prevArgs.token_mint
         => badge.token_mint # prevArgs.token_mint
    /\ result = "Ok"
    /\ nerrs = 0

\* two calls whose inputs differ in both identifiers
C7_Witness ==
  /\ ncalls = 2
  /\ prevArgs = Args(Fill(1), Ramp)
  /\ lastArgs = Args(Ramp, Fill(0))
  /\ badge = TokenBadge(Ramp, Fill(0))

\* C8 as stated: once the record has been initialized, whirlpools_config and
\* token_mint never change under any operation of the component.
C8_ImmutableOnceInitialized ==
  [][ncalls > 0 => badge' = badge]_vars

\* C8 as amended: the identity fields change only by a call of initialize,
\* which sets them to its arguments, on a fresh record or on an initialized
\* one; serializing and deserializing the record never change them.
C8_OnlyInitializeMutates ==
  [][badge' # badge =>
       /\ ncalls' = ncalls + 1
       /\ badge' = TokenBadge(lastArgs'.whirlpools_config, lastArgs'.token_mint)]_vars

\* an initialized record was initialized again with another identity, and
\* has been serialized and deserialized
C8_Witness ==
  /\ ncalls >= 2
  /\ prevArgs # lastArgs
  /\ badge # TokenBadge(prevArgs.whirlpools_config, prevArgs.token_mint)
  /\ savedArgs = lastArgs
  /\ loaded # None
  /\ loaded.ok

\* C9: the record after initialize(c, m) depends on c and m alone: from the
\* record's present contents and from a default record it is the same
\* record, and a second initialize(c, m) changes nothing.
C9_ResultIndependentOfPriorState ==
  /\ \A c \in Keys, m \in Keys :
       LET once == initialize(badge, c, m).self IN
         /\ once = initialize(Default, c, m).self
         /\ initialize(once, c, m).self = once
  /\ (ncalls >= 2 /\ prevArgs = lastArgs) =>
       badge = initialize(Default, lastArgs.whirlpools_config,
                          lastArgs.token_mint).self

\* the same initialize was applied twice in a row to a record holding
\* something else
C9_Witness ==
  /\ ncalls = 3
  /\ prevArgs = lastArgs
  /\ lastArgs = Args(Ramp, Fill(1))
  /\ badge = TokenBadge(Ramp, Fill(1))

\* C10: initialize validates nothing and the record has no 'initialized'
\* marker: the zero identifier and equal identifiers are accepted, a pair
\* the record or its storage already holds is accepted again, and
\* initialize(0, 0) on a default record gives the default record.
C10_NoValidation ==
  /\ DOMAIN badge = {"whirlpools_config", "token_mint"}
  /\ \A k \in Keys :
       initialize(badge, k, k) = [self |-> TokenBadge(k, k), ret |-> "Ok"]
  /\ initialize(badge, badge.whirlpools_config, badge.token_mint)
       = [self |-> badge, ret |-> "Ok"]
  /\ initialize(Default, DefaultPubkey, DefaultPubkey)
       = [self |-> Default, ret |-> "Ok"]
  /\ (ncalls = 1 /\ lastArgs = Args(DefaultPubkey, DefaultPubkey)) =>
       (badge = Default /\ result = "Ok")
  /\ (lastArgs # None /\ lastArgs.whirlpools_config = lastArgs.token_mint) =>
       (badge = TokenBadge(lastArgs.token_mint, lastArgs.token_mint)
        /\ result = "Ok")

\* initialize(0, 0) has returned Ok on a fresh record, which still equals
\* the never-initialized record
C10_Witness ==
  /\ ncalls = 1
  /\ lastArgs = Args(DefaultPubkey, DefaultPubkey)
  /\ result = "Ok"
  /\ badge = Default

====
